---- MODULE Spec2Model ----
(***************************************************************************)
(* The GoDaddy DNS provider of caddy-dns-godaddy (caddy_dns_godaddy.go):   *)
(* Provision, the four libdns record operations and the two single-record  *)
(* helpers, run against a model of the upstream domain-records REST API.   *)
(*                                                                         *)
(* Strings the code inspects (zone and record names) are sequences of      *)
(* one-character strings, so that strings.TrimSuffix is computed as Go     *)
(* computes it.  A record is [type, name, data]; its TTL is copied through *)
(* unchanged by every operation and decides nothing, so it is left out.    *)
(***************************************************************************)
EXTENDS Integers, Sequences, FiniteSets, TLC

VARIABLES
    APIKey,       \* Provider.APIKey
    APISecret,    \* Provider.APISecret
    HTTPTimeout,  \* Provider.HTTPTimeout, in seconds (0: unset)
    provErr,      \* what Provision returned ("none" before it ran)
    pc,           \* "new" | "failed" | "idle" | "send" | "recv" | "done"
    op,           \* the public operation running or last run
    ctxDone,      \* the caller's context of that operation is cancelled
    zone,         \* its zone argument
    input,        \* its records argument
    phase,        \* "list" | "delete" | "create": where the operation is
    i,            \* index into input (range loops of lines 100, 115, 176)
    j,            \* index into existing (range loop of line 177)
    existing,     \* SetRecords' existingRecords
    acc,          \* createdRecords / deletedRecords
    ret,          \* what the operation returned: [records, err]
    upstream,     \* the zone's records at the upstream API
    inflight,     \* the response on its way back to the client
    calls,        \* the p.request calls of this operation, in order
    norm          \* the name normalisation probe (specification SpecNorm)

vars == <<APIKey, APISecret, HTTPTimeout, provErr, pc, op, ctxDone, zone,
          input, phase, i, j, existing, acc, ret, upstream, inflight, calls,
          norm>>

config == <<APIKey, APISecret, HTTPTimeout, provErr>>

----------------------------------------------------------------------------
(* Bounds *)

\* longest records argument of a public operation
MaxRecs == 2

\* longest record name handed to the normalisation probe
MaxNameLen == 5

\* characters of those names
NameAlphabet == {"w", "e", "c", "."}

----------------------------------------------------------------------------
(* Strings *)

Dot == <<".">>

At == <<"@">>

\* the domain example.com, shortened to e.c
Domain == <<"e", ".", "c">>

\* a zone comes with or without the trailing dot
Zones == {Domain, Domain \o Dot}

\* the zones of the normalisation probe: a one-label domain as well, so
\* that names of every shape fit in MaxNameLen characters
NormZones == {d \o t : d \in {<<"c">>, Domain}, t \in {<<>>, Dot}}

RECURSIVE StringsUpTo(_, _)
StringsUpTo(alphabet, n) ==
    IF n = 0 THEN {<<>>}
    ELSE LET shorter == StringsUpTo(alphabet, n - 1)
         IN  shorter \cup {Append(s, c) : s \in shorter, c \in alphabet}

HasSuffix(s, suffix) ==
    /\ Len(s) >= Len(suffix)
    /\ SubSeq(s, Len(s) - Len(suffix) + 1, Len(s)) = suffix

\* strings.TrimSuffix: s without the trailing suffix, s itself when it does
\* not end in suffix
TrimSuffix(s, suffix) ==
    IF HasSuffix(s, suffix) THEN SubSeq(s, 1, Len(s) - Len(suffix)) ELSE s

----------------------------------------------------------------------------
(* Records, errors, requests *)

Rec(t, n, d) == [type |-> t, name |-> n, data |-> d]

\* the records callers hand in: relative, absolute and apex names, two
\* types under one name, two values under one (type, name)
Records ==
    { Rec("TXT", <<"w">>, "old"),
      Rec("TXT", <<"w">>, "new"),
      Rec("TXT", <<"w">> \o Dot \o Domain, "new"),
      Rec("A", <<"w">>, "old"),
      Rec("TXT", Domain, "old") }

RECURSIVE SeqsUpTo(_, _)
SeqsUpTo(S, n) ==
    IF n = 0 THEN {<<>>}
    ELSE LET shorter == SeqsUpTo(S, n - 1)
         IN  shorter \cup {Append(s, x) : s \in shorter, x \in S}

Inputs == SeqsUpTo(Records, MaxRecs)

NoErr == [kind |-> "nil", status |-> 0]

\* client.Do failed: no connection, the timeout, or the context
TransportErr == [kind |-> "transport", status |-> 0]

\* json Decode failed on the response body
DecodeErr == [kind |-> "decode", status |-> 0]

\* the fmt.Errorf of an unexpected status code
APIErr(s) == [kind |-> "api", status |-> s]

NoRet == [records |-> <<>>, err |-> NoErr, set |-> FALSE]

Returned(recs, e) == [records |-> recs, err |-> e, set |-> TRUE]

NoResp == [status |-> 0, ok |-> FALSE, recs |-> <<>>]

\* time.Duration(30 * time.Second), in seconds
DefaultTimeout == 30

\* http.StatusOK
StatusOK == 200

\* http.StatusNoContent
StatusNoContent == 204

\* the status codes upstream answers with: the two above, 201 Created,
\* 404 Not Found and 429 Too Many Requests
Statuses == {StatusOK, 201, StatusNoContent, 404, 429}

\* upstream's rate-limit answer
RateLimited(s) == s = 429

----------------------------------------------------------------------------
(* createRecord and deleteRecord: what goes on the wire *)

\* lines 195-199: domain, recordName and the apex substitution
createName(z, name) ==
    LET domain == TrimSuffix(z, Dot)
        recordName == TrimSuffix(name, Dot \o domain)
    IN  IF recordName = domain THEN At ELSE recordName

\* lines 237-242: the same normalisation, written out a second time
deleteName(z, name) ==
    LET domain == TrimSuffix(z, Dot)
        recordName == TrimSuffix(name, Dot \o domain)
    IN  IF recordName = domain THEN At ELSE recordName

GetReq ==
    [method |-> "GET", type |-> "", name |-> <<>>, data |-> ""]

\* the PATCH of createRecord: a one-record array with the normalised name
CreateReq(z, r) ==
    [method |-> "PATCH", type |-> r.type, name |-> createName(z, r.name),
     data |-> r.data]

\* the DELETE of deleteRecord: type and normalised name in the path
DeleteReq(z, r) ==
    [method |-> "DELETE", type |-> r.type, name |-> deleteName(z, r.name),
     data |-> ""]

\* createRecord taking every 2xx status for success
CreateStatusAny2xx(s) == s >= 200 /\ s < 300

\* the status check of each call: lines 143, 227 and 258
ListStatusOK(s) == s = StatusOK

CreateStatusOK(s) == s = StatusOK

DeleteStatusOK(s) == s = StatusOK \/ s = StatusNoContent

----------------------------------------------------------------------------
(* The upstream API *)

\* the records upstream can come to hold: names are stored relative
UpstreamRecords ==
    {Rec(r.type, createName(Domain, r.name), r.data) : r \in Records}

Matching(up, t, n) == {r \in up : r.type = t /\ r.name = n}

\* upstream carried a request out exactly when it answers 2xx
Is2xx(s) == s >= 200 /\ s < 300

Orders(S) ==
    {s \in [1 .. Cardinality(S) -> S] :
        \A a, b \in 1 .. Cardinality(S) : a # b => s[a] # s[b]}

Reverse(s) == [k \in 1 .. Len(s) |-> s[Len(s) + 1 - k]]

\* the orders in which upstream lists a record set: its own order, which
\* the client does not know, forwards or backwards
Listings(S) ==
    LET l == CHOOSE s \in Orders(S) : TRUE
    IN  {l, Reverse(l)}

\* the answers upstream may give to a request in state up, each with the
\* state it leaves: [status, ok, recs, up]
\*   GET     200 with the listing (or with a body that does not decode)
\*   PATCH   adds the record to those already there
\*   DELETE  removes every record of the type and name; a target that
\*           does not exist is answered with an error status
UpstreamAnswers(up, req) ==
    IF req.method = "GET" THEN
        {[status |-> StatusOK, ok |-> TRUE, recs |-> l, up |-> up] :
            l \in Listings(up)}
        \cup {[status |-> s, ok |-> FALSE, recs |-> <<>>, up |-> up] :
            s \in Statuses}
    ELSE IF req.method = "PATCH" THEN
        {[status |-> s, ok |-> FALSE, recs |-> <<>>,
          up |-> IF Is2xx(s)
                 THEN up \cup {Rec(req.type, req.name, req.data)}
                 ELSE up] : s \in Statuses}
    ELSE
        LET hit == Matching(up, req.type, req.name)
        IN  {[status |-> s, ok |-> FALSE, recs |-> <<>>,
              up |-> IF Is2xx(s) THEN up \ hit ELSE up] :
                s \in IF hit = {} THEN {x \in Statuses : ~Is2xx(x)}
                      ELSE Statuses}

----------------------------------------------------------------------------
(* One HTTP exchange as the client sees it: client.Do failed, or a response *)

DoFailed == [failed |-> TRUE, status |-> 0, ok |-> FALSE, recs |-> <<>>]

Reply(r) ==
    [failed |-> FALSE, status |-> r.status, ok |-> r.ok, recs |-> r.recs]

\* GetRecords, lines 137-164: what it returns on exchange x
GetRecordsResult(x) ==
    IF x.failed THEN Returned(<<>>, TransportErr)
    ELSE IF ~ListStatusOK(x.status) THEN Returned(<<>>, APIErr(x.status))
    ELSE IF ~x.ok THEN Returned(<<>>, DecodeErr)
    ELSE Returned(x.recs, NoErr)

\* createRecord, lines 221-232: the error it returns on exchange x
createRecordResult(x) ==
    IF x.failed THEN TransportErr
    ELSE IF ~CreateStatusOK(x.status) THEN APIErr(x.status)
    ELSE NoErr

\* deleteRecord, lines 252-263
deleteRecordResult(x) ==
    IF x.failed THEN TransportErr
    ELSE IF ~DeleteStatusOK(x.status) THEN APIErr(x.status)
    ELSE NoErr

----------------------------------------------------------------------------
(* The public operations, one step per HTTP exchange.  A step function     *)
(* gives the control state after the exchange x: the loop goes on          *)
(* (pc = "send") or the operation returns (pc = "done", ret set).          *)

Ctl(p, ph, ii, jj, ex, a, r) ==
    [pc |-> p, phase |-> ph, i |-> ii, j |-> jj, existing |-> ex,
     acc |-> a, ret |-> r]

Return(ex, r) == Ctl("done", "none", 0, 0, ex, <<>>, r)

\* AppendRecords with the record appended before the error is looked at
AppendLoopCountsFailed(ex, recs, k, a, x) ==
    LET err == createRecordResult(x)
    IN  IF err # NoErr THEN Return(ex, Returned(Append(a, recs[k]), err))
        ELSE IF k = Len(recs)
             THEN Return(ex, Returned(Append(a, recs[k]), NoErr))
             ELSE Ctl("send", "create", k + 1, 0, ex, Append(a, recs[k]),
                      NoRet)

\* the loop body of AppendRecords, lines 100-108
AppendLoop(ex, recs, k, a, x) ==
    LET err == createRecordResult(x)
    IN  IF err # NoErr THEN Return(ex, Returned(a, err))
        ELSE IF k = Len(recs)
             THEN Return(ex, Returned(Append(a, recs[k]), NoErr))
             ELSE Ctl("send", "create", k + 1, 0, ex, Append(a, recs[k]),
                      NoRet)

\* AppendRecords from its first line: an empty range loop returns at once
AppendStart(ex, recs) ==
    IF recs = <<>> THEN Return(ex, Returned(<<>>, NoErr))
    ELSE Ctl("send", "create", 1, 0, ex, <<>>, NoRet)

\* DeleteRecords going on to the next record after a failed delete
DeleteLoopGoesOn(recs, k, a, x) ==
    LET err == deleteRecordResult(x)
        b == IF err # NoErr THEN a ELSE Append(a, recs[k])
    IN  IF k = Len(recs) THEN Return(<<>>, Returned(b, err))
        ELSE Ctl("send", "delete", k + 1, 0, <<>>, b, NoRet)

\* the loop body of DeleteRecords, lines 115-123
DeleteLoop(recs, k, a, x) ==
    LET err == deleteRecordResult(x)
    IN  IF err # NoErr THEN Return(<<>>, Returned(a, err))
        ELSE IF k = Len(recs)
             THEN Return(<<>>, Returned(Append(a, recs[k]), NoErr))
             ELSE Ctl("send", "delete", k + 1, 0, <<>>, Append(a, recs[k]),
                      NoRet)

DeleteStart(recs) ==
    IF recs = <<>> THEN Return(<<>>, Returned(<<>>, NoErr))
    ELSE Ctl("send", "delete", 1, 0, <<>>, <<>>, NoRet)

\* the test of line 180 without the comparison of the types
SameNameOnly(e, n) == e.name = n.name

\* line 180: an existing record is replaced when type and name are equal
SameTypeName(e, n) == e.type = n.type /\ e.name = n.name

\* the pairs (a, b) of the nested loops of lines 176-177 that come after
\* (ii, jj) and pass the test of line 180
LaterMatches(recs, ex, ii, jj) ==
    {p \in (1 .. Len(recs)) \X (1 .. Len(ex)) :
        /\ SameTypeName(ex[p[2]], recs[p[1]])
        /\ (p[1] > ii \/ (p[1] = ii /\ p[2] > jj))}

First(P) ==
    CHOOSE p \in P :
        \A q \in P : p[1] < q[1] \/ (p[1] = q[1] /\ p[2] <= q[2])

\* SetRecords, lines 176-190, from loop position (ii, jj): the next delete,
\* or AppendRecords when the loops are through
SetLoop(recs, ex, ii, jj) ==
    LET later == LaterMatches(recs, ex, ii, jj)
    IN  IF later = {} THEN AppendStart(ex, recs)
        ELSE Ctl("send", "delete", First(later)[1], First(later)[2], ex,
                 <<>>, NoRet)

\* SetRecords, lines 170-173: after GetRecords
SetAfterList(recs, x) ==
    LET got == GetRecordsResult(x)
    IN  IF got.err # NoErr THEN Return(<<>>, Returned(<<>>, got.err))
        ELSE SetLoop(recs, got.records, 1, 0)

\* SetRecords dropping the error of deleteRecord
SetAfterDeleteIgnoresErr(recs, ex, ii, jj, x) == SetLoop(recs, ex, ii, jj)

\* SetRecords, lines 181-184: after a deleteRecord
SetAfterDelete(recs, ex, ii, jj, x) ==
    LET err == deleteRecordResult(x)
    IN  IF err # NoErr THEN Return(ex, Returned(<<>>, err))
        ELSE SetLoop(recs, ex, ii, jj)

\* the request the running operation issues next
CurReq ==
    IF phase = "list" THEN GetReq
    ELSE IF phase = "create" THEN CreateReq(zone, input[i])
    ELSE IF op = "set" THEN DeleteReq(zone, existing[j])
    ELSE DeleteReq(zone, input[i])

\* the control state after exchange x of the running operation
After(x) ==
    IF op = "get" THEN Return(<<>>, GetRecordsResult(x))
    ELSE IF op = "append" THEN AppendLoop(<<>>, input, i, acc, x)
    ELSE IF op = "delete" THEN DeleteLoop(input, i, acc, x)
    ELSE IF phase = "list" THEN SetAfterList(input, x)
    ELSE IF phase = "delete" THEN SetAfterDelete(input, existing, i, j, x)
    ELSE AppendLoop(existing, input, i, acc, x)

\* the error the helper that issued the exchange returns
HelperErr(x) ==
    IF phase = "list" THEN GetRecordsResult(x).err
    ELSE IF phase = "create" THEN createRecordResult(x)
    ELSE deleteRecordResult(x)

Apply(c) ==
    /\ pc' = c.pc
    /\ phase' = c.phase
    /\ i' = c.i
    /\ j' = c.j
    /\ existing' = c.existing
    /\ acc' = c.acc
    /\ ret' = c.ret

Pending == [kind |-> "pending", status |-> 0]

Call(req, reached, status, err) ==
    [req |-> req, reached |-> reached, status |-> status, err |-> err]

\* the last p.request call of the operation has returned with err
Settled(err) == [calls EXCEPT ![Len(calls)].err = err]

----------------------------------------------------------------------------
(* Initial state and actions *)

NoNorm == [zone |-> <<>>, name |-> <<>>, created |-> <<>>, deleted |-> <<>>,
           did |-> {}]

\* no operation has been called
Fresh ==
    /\ provErr = "none"
    /\ pc = "new"
    /\ op = "none"
    /\ ctxDone = FALSE
    /\ zone = <<>>
    /\ input = <<>>
    /\ phase = "none"
    /\ i = 0
    /\ j = 0
    /\ existing = <<>>
    /\ acc = <<>>
    /\ ret = NoRet
    /\ inflight = NoResp
    /\ calls = <<>>

\* a Provider as the host builds it from its configuration, not yet
\* provisioned; upstream holds the zone as earlier operations and other
\* clients left it
Init ==
    /\ APIKey \in {"", "key"}
    /\ APISecret \in {"", "secret"}
    /\ HTTPTimeout \in {0, DefaultTimeout}
    /\ upstream \in SUBSET UpstreamRecords
    /\ norm = NoNorm
    /\ Fresh

\* Provision without the check of the secret
ProvisionKeyOnly(key, secret) ==
    IF key = "" THEN "GoDaddy API key cannot be empty" ELSE "nil"

\* Provision, lines 41-52; the host uses only a provider whose Provision
\* returned nil
ProvisionResult(key, secret) ==
    IF key = "" THEN "GoDaddy API key cannot be empty"
    ELSE IF secret = "" THEN "GoDaddy API secret cannot be empty"
    ELSE "nil"

Provision ==
    /\ pc = "new"
    /\ provErr' = ProvisionResult(APIKey, APISecret)
    /\ pc' = IF provErr' = "nil" THEN "idle" ELSE "failed"
    /\ HTTPTimeout' = IF provErr' = "nil" /\ HTTPTimeout = 0
                      THEN DefaultTimeout ELSE HTTPTimeout
    /\ UNCHANGED <<APIKey, APISecret, op, ctxDone, zone, input, phase, i, j,
                   existing, acc, ret, upstream, inflight, calls, norm>>

\* the host calls a public operation with a live context
Begin(o, z, recs, c) ==
    /\ pc = "idle"
    /\ op' = o
    /\ zone' = z
    /\ input' = recs
    /\ ctxDone' = FALSE
    /\ calls' = <<>>
    /\ Apply(c)
    /\ UNCHANGED <<config, upstream, inflight, norm>>

CallGetRecords ==
    \E z \in Zones :
        Begin("get", z, <<>>, Ctl("send", "list", 0, 0, <<>>, <<>>, NoRet))

CallAppendRecords ==
    \E z \in Zones, recs \in Inputs :
        Begin("append", z, recs, AppendStart(<<>>, recs))

CallDeleteRecords ==
    \E z \in Zones, recs \in Inputs :
        Begin("delete", z, recs, DeleteStart(recs))

CallSetRecords ==
    \E z \in Zones, recs \in Inputs :
        Begin("set", z, recs, Ctl("send", "list", 0, 0, <<>>, <<>>, NoRet))

\* requests built without the caller's context
AbortsNever(done) == FALSE

\* lines 132, 216 and 247: every request is built with the caller's
\* context, so client.Do fails once that context is done
Aborts(done) == done

\* the caller cancels the context (or its deadline passes) while the
\* operation runs
Cancel ==
    /\ pc \in {"send", "recv"}
    /\ ~ctxDone
    /\ ctxDone' = TRUE
    /\ UNCHANGED <<config, pc, op, zone, input, phase, i, j, existing, acc,
                   ret, upstream, inflight, calls, norm>>

\* p.request with a cancelled context: client.Do returns the context's
\* error and nothing is sent
DoCancelled ==
    /\ pc = "send"
    /\ Aborts(ctxDone)
    /\ calls' = Append(calls, Call(CurReq, FALSE, 0, HelperErr(DoFailed)))
    /\ Apply(After(DoFailed))
    /\ UNCHANGED <<config, op, ctxDone, zone, input, upstream, inflight,
                   norm>>

\* p.request: client.Do fails before the request reaches upstream
DoNoConnection ==
    /\ pc = "send"
    /\ ~Aborts(ctxDone)
    /\ calls' = Append(calls, Call(CurReq, FALSE, 0, HelperErr(DoFailed)))
    /\ Apply(After(DoFailed))
    /\ UNCHANGED <<config, op, ctxDone, zone, input, upstream, inflight,
                   norm>>

\* p.request: the request reaches upstream, which acts on it and answers
DoSend ==
    /\ pc = "send"
    /\ ~Aborts(ctxDone)
    /\ \E a \in UpstreamAnswers(upstream, CurReq) :
        /\ upstream' = a.up
        /\ inflight' = [status |-> a.status, ok |-> a.ok, recs |-> a.recs]
        /\ calls' = Append(calls, Call(CurReq, TRUE, a.status, Pending))
    /\ pc' = "recv"
    /\ UNCHANGED <<config, op, ctxDone, zone, input, phase, i, j, existing,
                   acc, ret, norm>>

\* the context is cancelled while the response is awaited: client.Do
\* returns the context's error
RecvCancelled ==
    /\ pc = "recv"
    /\ Aborts(ctxDone)
    /\ calls' = Settled(HelperErr(DoFailed))
    /\ inflight' = NoResp
    /\ Apply(After(DoFailed))
    /\ UNCHANGED <<config, op, ctxDone, zone, input, upstream, norm>>

\* no response within Provider.HTTPTimeout: client.Do returns an error
RecvTimeout ==
    /\ pc = "recv"
    /\ ~Aborts(ctxDone)
    /\ HTTPTimeout > 0
    /\ calls' = Settled(HelperErr(DoFailed))
    /\ inflight' = NoResp
    /\ Apply(After(DoFailed))
    /\ UNCHANGED <<config, op, ctxDone, zone, input, upstream, norm>>

\* the response arrives and the helper checks its status
RecvResponse ==
    /\ pc = "recv"
    /\ ~Aborts(ctxDone)
    /\ calls' = Settled(HelperErr(Reply(inflight)))
    /\ inflight' = NoResp
    /\ Apply(After(Reply(inflight)))
    /\ UNCHANGED <<config, op, ctxDone, zone, input, upstream, norm>>

Next ==
    \/ Provision
    \/ CallGetRecords
    \/ CallAppendRecords
    \/ CallDeleteRecords
    \/ CallSetRecords
    \/ Cancel
    \/ DoCancelled
    \/ DoNoConnection
    \/ DoSend
    \/ RecvCancelled
    \/ RecvTimeout
    \/ RecvResponse

Spec == Init /\ [][Next]_vars

----------------------------------------------------------------------------
(* The name normalisation of createRecord and deleteRecord on its own:     *)
(* every zone of NormZones and every name of up to MaxNameLen characters   *)

InitNorm ==
    /\ APIKey = "key"
    /\ APISecret = "secret"
    /\ HTTPTimeout = DefaultTimeout
    /\ upstream = {}
    /\ norm \in {[NoNorm EXCEPT !.zone = z, !.name = n] :
                    z \in NormZones,
                    n \in StringsUpTo(NameAlphabet, MaxNameLen)}
    /\ Fresh

\* createRecord builds its PATCH body for the name
NormCreate ==
    /\ "create" \notin norm.did
    /\ norm' = [norm EXCEPT
                   !.created = CreateReq(norm.zone,
                                         Rec("TXT", norm.name, "new")).name,
                   !.did = @ \cup {"create"}]
    /\ UNCHANGED <<config, pc, op, ctxDone, zone, input, phase, i, j,
                   existing, acc, ret, upstream, inflight, calls>>

\* deleteRecord builds its DELETE path for the name
NormDelete ==
    /\ "delete" \notin norm.did
    /\ norm' = [norm EXCEPT
                   !.deleted = DeleteReq(norm.zone,
                                         Rec("TXT", norm.name, "new")).name,
                   !.did = @ \cup {"delete"}]
    /\ UNCHANGED <<config, pc, op, ctxDone, zone, input, phase, i, j,
                   existing, acc, ret, upstream, inflight, calls>>

NextNorm == NormCreate \/ NormDelete

SpecNorm == InitNorm /\ [][NextNorm]_vars

----------------------------------------------------------------------------
(* Properties *)

Range(s) == {s[k] : k \in 1 .. Len(s)}

Done(o) == pc = "done" /\ op = o

\* the name upstream lists a record under: S for S.Domain, @ for the apex,
\* a relative name as it is
Relative(n) ==
    IF n = Domain THEN At
    ELSE IF \E k \in 0 .. Len(n) : n = SubSeq(n, 1, k) \o Dot \o Domain
         THEN SubSeq(n, 1, Len(n) - Len(Domain) - 1)
         ELSE n

\* a record as upstream lists it
Listed(r) == Rec(r.type, Relative(r.name), r.data)

SameListedPair(a, b) ==
    a.type = b.type /\ Relative(a.name) = Relative(b.name)

\* C1: whenever SetRecords returns without error, for every (type, name)
\* pair of the desired list the upstream records of that type and name are
\* exactly the desired records of that pair, also when the desired name is
\* absolute and upstream lists it relative.
C1_SetRecordsReplaces ==
    (Done("set") /\ ret.err = NoErr) =>
        \A d \in Range(input) :
            Matching(upstream, d.type, Relative(d.name))
                = {Listed(e) : e \in {x \in Range(input) :
                                        SameListedPair(x, d)}}

\* C1 restricted to desired names in the form upstream lists them in: the
\* names the comparison of line 180 recognises
C1_ListedNamesOnly ==
    (Done("set") /\ ret.err = NoErr) =>
        \A d \in Range(input) :
            (\A x \in Range(input) :
                SameListedPair(x, d) => x.name = Relative(x.name))
            => Matching(upstream, d.type, Relative(d.name))
                = {Listed(e) : e \in {x \in Range(input) :
                                        SameListedPair(x, d)}}

\* the calls of the running batch operation so far are the method's calls
\* for input[1], input[2], ... in order, and all but the last succeeded
InInputOrder(method) ==
    /\ Len(calls) <= Len(input)
    /\ \A k \in 1 .. Len(calls) :
        /\ calls[k].req.method = method
        /\ calls[k].req.type = input[k].type
        /\ calls[k].req.name = Relative(input[k].name)
        /\ k < Len(calls) => calls[k].err = NoErr

\* what a batch operation returns: the prefix before the failing call and
\* an error, or the whole input and nil
PrefixReturned ==
    LET n == Len(calls)
    IN  IF n > 0 /\ calls[n].err # NoErr
        THEN ret.err # NoErr /\ ret.records = SubSeq(input, 1, n - 1)
        ELSE n = Len(input) /\ ret.err = NoErr /\ ret.records = input

\* C2: AppendRecords issues one create per record in input order, stops at
\* the first create that fails, returns the prefix before the failing
\* record with an error (the whole input and nil when none fails), and
\* leaves what it created upstream.
C2_AppendPrefix ==
    op = "append" =>
        /\ InInputOrder("PATCH")
        /\ pc = "done" =>
            /\ PrefixReturned
            /\ \A r \in Range(ret.records) : Listed(r) \in upstream

C2_Witness ==
    /\ Done("append")
    /\ Len(input) = 2
    /\ Len(calls) = 2
    /\ calls[2].err # NoErr
    /\ ret.records = <<input[1]>>
    /\ Listed(input[1]) \in upstream

\* C3: DeleteRecords issues one delete per record in input order, stops at
\* the first delete that fails and returns the records whose delete
\* succeeded, a prefix of the input, with an error; the whole input and nil
\* when every delete succeeds.  Two records of one (type, name) included.
C3_DeletePrefix ==
    op = "delete" =>
        /\ InInputOrder("DELETE")
        /\ pc = "done" => PrefixReturned

C3_Witness ==
    /\ Done("delete")
    /\ Len(input) = 2
    /\ SameListedPair(input[1], input[2])
    /\ Len(calls) = 2
    /\ calls[2].status = 404
    /\ ret.records = <<input[1]>>
    /\ ret.err = APIErr(404)

\* the status codes the claim names as success
ExactSuccess(method, s) ==
    IF method = "DELETE" THEN s \in {200, 204} ELSE s = 200

\* C4: a remote call succeeds only on 200 (list, create) or 200/204
\* (delete); on any other upstream status, 201 and the answer to a delete
\* of an absent pair included, the public operation returns an error.
C4_ExactStatus ==
    \A k \in 1 .. Len(calls) :
        (/\ calls[k].reached
         /\ calls[k].err # Pending
         /\ ~ExactSuccess(calls[k].req.method, calls[k].status))
        => /\ calls[k].err # NoErr
           /\ pc = "done"
           /\ ret.err # NoErr

C4_Witness ==
    /\ pc = "done"
    /\ op = "set"
    /\ Len(calls) = 3
    /\ calls[2].req.method = "DELETE"
    /\ calls[2].status = 204
    /\ calls[2].err = NoErr
    /\ calls[3].req.method = "PATCH"
    /\ calls[3].status = 201
    /\ ret.err = APIErr(201)

\* the domain of a zone given with or without the trailing dot
DomainOf(z) == IF z[Len(z)] = "." THEN SubSeq(z, 1, Len(z) - 1) ELSE z

NormNames == StringsUpTo(NameAlphabet, MaxNameLen)

\* the name the claim says is sent for name n in the zone of domain D
SentAs(n, D, sent) ==
    /\ n = D => sent = At
    /\ \A S \in NormNames : n = S \o Dot \o D => sent = S

\* C5: for a zone with or without the trailing dot, createRecord and
\* deleteRecord send the same name: S for the name S.D, @ for the name D.
C5_NameNormalised ==
    LET D == DomainOf(norm.zone)
    IN  /\ "create" \in norm.did => SentAs(norm.name, D, norm.created)
        /\ "delete" \in norm.did => SentAs(norm.name, D, norm.deleted)
        /\ norm.did = {"create", "delete"} => norm.created = norm.deleted

\* C5 for every name but D.D, the domain under itself
C5_ExceptDomainUnderItself ==
    LET D == DomainOf(norm.zone)
    IN  norm.name # D \o Dot \o D =>
            /\ "create" \in norm.did => SentAs(norm.name, D, norm.created)
            /\ "delete" \in norm.did => SentAs(norm.name, D, norm.deleted)
            /\ norm.did = {"create", "delete"}
                => norm.created = norm.deleted

\* C6: Provision returns an error exactly when the API key or the API
\* secret is empty and issues no HTTP request; no record operation runs on
\* a provider with a missing credential.
C6_ProvisionRejects ==
    /\ pc = "new" => provErr = "none"
    /\ pc # "new" => (provErr # "nil" <=> (APIKey = "" \/ APISecret = ""))
    /\ pc \in {"new", "idle", "failed"} =>
        calls = <<>> /\ inflight = NoResp /\ op = "none"
    /\ pc = "failed" <=> provErr \notin {"none", "nil"}
    /\ op # "none" => APIKey # "" /\ APISecret # ""

C6_Witness ==
    /\ pc = "failed"
    /\ APIKey # ""
    /\ APISecret = ""
    /\ provErr = "GoDaddy API secret cannot be empty"
    /\ upstream # {}

\* a call that reached upstream is added to the log, or upstream changes
UpstreamTouched ==
    \/ upstream' # upstream
    \/ /\ Len(calls') > Len(calls)
       /\ calls'[Len(calls')].reached

\* C7: once the context of a running operation is cancelled, the request
\* in flight ends in an error, no further request reaches upstream or
\* changes it, and the operation returns an error.
C7_Cancellation ==
    /\ [][(ctxDone /\ ctxDone') => ~UpstreamTouched]_vars
    /\ [](ctxDone =>
            /\ pc = "done" => ret.err # NoErr /\ calls[Len(calls)].err # NoErr
            /\ \A k \in 1 .. Len(calls) :
                calls[k].err = Pending => pc = "recv" /\ k = Len(calls))

C7_Witness ==
    /\ Done("set")
    /\ ctxDone
    /\ Len(input) = 2
    /\ Len(calls) = 3
    /\ calls[2].req.method = "DELETE"
    /\ calls[2].reached
    /\ calls[2].err = NoErr
    /\ calls[3].req.method = "PATCH"
    /\ ~calls[3].reached
    /\ ret.err = TransportErr

\* C8: a rate-limit answer is waited out and the request re-attempted, so
\* that no operation fails on a rate-limit answer.
C8_RateLimitHandled ==
    pc = "done" => ~(ret.err.kind = "api" /\ RateLimited(ret.err.status))

\* C9, in every state of a SetRecords run: the requests so far are one
\* GET, then DELETEs, then PATCHes, and every request but the last
\* succeeded; a failed list or delete ends the run with an error and no
\* records, no create issued, and what was deleted still gone.
SetPhases ==
    op = "set" =>
        /\ \A k \in 1 .. Len(calls) :
            /\ calls[k].req.method = "GET" <=> k = 1
            /\ k < Len(calls) => calls[k].err = NoErr
            /\ \A l \in 1 .. Len(calls) :
                (k < l /\ calls[k].req.method = "PATCH")
                    => calls[l].req.method = "PATCH"
        /\ (pc = "done" /\ calls[Len(calls)].err # NoErr
                /\ calls[Len(calls)].req.method # "PATCH") =>
            /\ ret.err # NoErr
            /\ ret.records = <<>>
            /\ \A k \in 1 .. Len(calls) :
                /\ calls[k].req.method # "PATCH"
                /\ (calls[k].req.method = "DELETE" /\ calls[k].err = NoErr)
                    => Matching(upstream, calls[k].req.type,
                                calls[k].req.name) = {}

\* C9: SetRecords issues one list, then all deletes, then all creates, a
\* later phase only after every earlier request succeeded; a failed list
\* returns an error, no records, upstream unchanged; a failed delete
\* returns an error, no records, no create, no rollback.
C9_SetPhases ==
    /\ []SetPhases
    /\ [][(op' = "set" /\ phase' = "list") => upstream' = upstream]_vars
    /\ [][(op = "set" /\ phase = "list") => upstream' = upstream]_vars

C9_Witness ==
    /\ Done("set")
    /\ Len(calls) = 3
    /\ calls[2].req.method = "DELETE"
    /\ calls[2].err = NoErr
    /\ calls[3].req.method = "DELETE"
    /\ calls[3].reached
    /\ calls[3].err # NoErr
    /\ calls[3].req.type # calls[2].req.type
    /\ ret.records = <<>>
    /\ upstream # {}

\* C10: in SetRecords a delete repeated against a (type, name) that an
\* earlier delete of the same run has cleared does not make SetRecords
\* fail.
C10_RepeatedDeleteHarmless ==
    LET n == Len(calls)
    IN  (/\ Done("set")
         /\ n >= 3
         /\ calls[n].req.method = "DELETE"
         /\ calls[n].reached
         /\ ~ctxDone
         /\ \E k \in 2 .. n - 1 :
              /\ calls[k].req = calls[n].req
              /\ calls[k].err = NoErr
         /\ calls[n].status = 404)
        => ret.err = NoErr

\* C10, the delete phase alone: when SetRecords has reached its creates it
\* has issued exactly one delete per pair of a desired and a fetched record
\* of equal type and name, none left out and none merged
C10_OneDeletePerPair ==
    (op = "set" /\ phase = "create") =>
        Cardinality({k \in 1 .. Len(calls) : calls[k].req.method = "DELETE"})
            = Cardinality({p \in (1 .. Len(input)) \X (1 .. Len(existing)) :
                            /\ existing[p[2]].type = input[p[1]].type
                            /\ existing[p[2]].name = input[p[1]].name})

\* the upstream records a step removes (a changed record is a removed one)
Removed == upstream \ upstream'

\* r is of the type and normalised name of a record of the input
InFrame(r, recs) ==
    \E x \in Range(recs) : r.type = x.type /\ r.name = Relative(x.name)

\* C11: GetRecords never changes the upstream record set; AppendRecords,
\* DeleteRecords and SetRecords, succeeding or failing, never remove or
\* alter an upstream record whose (type, normalised name) differs from that
\* of every record of their input; AppendRecords removes none at all.
C11_Frame ==
    [][/\ op' = "get" => upstream' = upstream
       /\ op' = "append" => Removed = {}
       /\ \A r \in Removed : InFrame(r, input')]_vars

C11_Witness ==
    /\ Done("set")
    /\ ret.err = NoErr
    /\ \E k \in 1 .. Len(calls) :
        calls[k].req.method = "DELETE" /\ calls[k].err = NoErr
    /\ Rec("A", <<"w">>, "old") \in upstream
    /\ Rec("TXT", <<"@">>, "old") \in upstream
    /\ \A r \in Range(input) : r.type = "TXT" /\ r.name = <<"w">>

====
